---------------------------- MODULE Spec2Model ----------------------------
(***************************************************************************)
(* Model of the Multi Accounts Manager credential store                    *)
(* (src/multi_accounts_manager/data_store.py): the in-memory mapping of    *)
(* service name -> accounts, the JSON store file, the CSV interchange file *)
(* and the operations of DataStore; and of the password generator and the  *)
(* strength estimator (src/multi_accounts_manager/passwords.py).           *)
(*                                                                         *)
(* Representation.                                                         *)
(*  - A tag, and the tags cell of a CSV row, is a sequence of one-char     *)
(*    strings, so that strip / split / join are computed, not assumed.     *)
(*  - username, password and notes are atomic strings: str() of a str is   *)
(*    the same str, and JSON and CSV carry a str unchanged.                *)
(*  - A timestamp is the number of seconds on the wall clock; _now()       *)
(*    formats it injectively. NoStamp stands for an absent key.            *)
(*  - A ServiceData is its list of accounts (its name is always its key).  *)
(***************************************************************************)
EXTENDS Integers, Sequences, FiniteSets, TLC

VARIABLES
    mem,      \* mem[i]: DataStore._services of store instance i
    started,  \* started[i]: instance i has been constructed
    file,     \* content of the JSON file at storage_path
    csv,      \* content of the CSV file (header contract assumed): rows
    now,      \* the wall clock, in seconds
    last      \* the last call made: operation, arguments, outcome

vars == <<mem, started, file, csv, now, last>>

\* ------------------------------------------------------------------ bounds

MaxAccounts == 2    \* accounts held by one store instance, all services
MaxClock == 1       \* the clock stops advancing here
MaxRows == 2        \* rows of an imported CSV file
MaxTyped == 14      \* characters typed into a password field
MaxDrawn == 2       \* policy.length of a generated password

Instances == {1, 2}
ServiceNames == {"mail", "bank"}
Usernames == {"u1", "u2"}
NoStamp == -1

\* ------------------------------------------------------------ str helpers

\* str.strip(): leading and trailing whitespace removed
RECURSIVE LStrip(_)
LStrip(s) ==
    IF s = <<>> THEN <<>>
    ELSE IF Head(s) = " " THEN LStrip(Tail(s)) ELSE s

RECURSIVE RStrip(_)
RStrip(s) ==
    IF s = <<>> THEN <<>>
    ELSE IF s[Len(s)] = " " THEN RStrip(SubSeq(s, 1, Len(s) - 1)) ELSE s

Strip(s) == RStrip(LStrip(s))

\* str.split(","): never empty, "" splits to [""]
RECURSIVE SplitComma(_)
SplitComma(s) ==
    IF \E k \in 1..Len(s) : s[k] = ","
    THEN LET k == CHOOSE j \in 1..Len(s) :
                     s[j] = "," /\ \A h \in 1..(j - 1) : s[h] # ","
         IN <<SubSeq(s, 1, k - 1)>> \o SplitComma(SubSeq(s, k + 1, Len(s)))
    ELSE <<s>>

\* " ".join(tags), as the table of the window shows the tags
RECURSIVE JoinTagsBySpace(_)
JoinTagsBySpace(tags) ==
    IF tags = <<>> THEN <<>>
    ELSE IF Len(tags) = 1 THEN tags[1]
    ELSE tags[1] \o <<" ">> \o JoinTagsBySpace(Tail(tags))

\* ", ".join(tags)
RECURSIVE JoinTags(_)
JoinTags(tags) ==
    IF tags = <<>> THEN <<>>
    ELSE IF Len(tags) = 1 THEN tags[1]
    ELSE tags[1] \o <<",", " ">> \o JoinTags(Tail(tags))

InSeq(x, s) == \E k \in 1..Len(s) : s[k] = x

\* the loop without "stripped not in cleaned"
RECURSIVE NormaliseFromKeepingRepeats(_, _)
NormaliseFromKeepingRepeats(cleaned, tags) ==
    IF tags = <<>> THEN cleaned
    ELSE LET stripped == Strip(Head(tags))
         IN IF stripped # <<>>
            THEN NormaliseFromKeepingRepeats(Append(cleaned, stripped), Tail(tags))
            ELSE NormaliseFromKeepingRepeats(cleaned, Tail(tags))

\* _normalise_tags: strip each, drop empties, keep the first occurrence
RECURSIVE NormaliseFrom(_, _)
NormaliseFrom(cleaned, tags) ==
    IF tags = <<>> THEN cleaned
    ELSE LET stripped == Strip(Head(tags))
         IN IF stripped # <<>> /\ ~InSeq(stripped, cleaned)
            THEN NormaliseFrom(Append(cleaned, stripped), Tail(tags))
            ELSE NormaliseFrom(cleaned, Tail(tags))

NormaliseTags(tags) == NormaliseFrom(<<>>, tags)

\* ---------------------------------------------------------------- Account

\* Account(...) with __post_init__: the tags are normalised on construction
Account(username, password, notes, tags, last_updated) ==
    [username |-> username, password |-> password, notes |-> notes,
     tags |-> NormaliseTags(tags), last_updated |-> last_updated]

\* Account.to_dict
AccountToDict(a) ==
    [isdict |-> TRUE, username |-> a.username, password |-> a.password,
     notes |-> a.notes, tagskind |-> "list", tags |-> a.tags,
     last_updated |-> a.last_updated]

\* from_dict that never finds the stored last_updated
AccountFromDictRestamped(payload, t) ==
    LET tags == IF payload.tagskind = "str" THEN SplitComma(payload.tags[1])
                ELSE IF payload.tagskind = "list" THEN payload.tags
                ELSE <<>>
    IN Account(payload.username, payload.password, payload.notes, tags, t)

\* Account.from_dict at clock t. payload.tagskind tells what payload["tags"]
\* is: "str" (payload.tags[1] is the string), "list", or "other" (absent
\* key gives the default [], a non-iterable gives []).
AccountFromDict(payload, t) ==
    LET tags == IF payload.tagskind = "str" THEN SplitComma(payload.tags[1])
                ELSE IF payload.tagskind = "list" THEN payload.tags
                ELSE <<>>
        last_updated == IF payload.last_updated = NoStamp THEN t
                        ELSE payload.last_updated
    IN Account(payload.username, payload.password, payload.notes, tags,
               last_updated)

\* updated() that ends at replace(self, **allowed), without the stamp
AccountUpdatedUnstamped(a, changes, t) ==
    LET val(k) == IF k \in DOMAIN changes
                  THEN IF k = "tags" THEN NormaliseTags(changes[k])
                       ELSE changes[k]
                  ELSE a[k]
    IN Account(val("username"), val("password"), val("notes"),
               val("tags"), val("last_updated"))

\* Account.updated(**changes) at clock t. changes maps the keyword names
\* given (none of them None) to their values.
AccountUpdated(a, changes, t) ==
    LET val(k) == IF k \in DOMAIN changes
                  THEN IF k = "tags" THEN NormaliseTags(changes[k])
                       ELSE changes[k]
                  ELSE a[k]
        updated == Account(val("username"), val("password"), val("notes"),
                           val("tags"), val("last_updated"))
    IN Account(updated.username, updated.password, updated.notes,
               updated.tags, t)

\* ------------------------------------------------------------- JSON file

EmptyStore == [s \in {} |-> <<>>]

MissingFile == [kind |-> "missing", body |-> EmptyStore]
\* not JSON at all, or unreadable: json.load raises ValueError / OSError
CorruptFile == [kind |-> "corrupt", body |-> EmptyStore]
\* well-formed JSON whose top level is not an object, such as []
NonObjectFile == [kind |-> "nonobject", body |-> EmptyStore]

\* ServiceData.to_dict as save() writes it: {"accounts": [...]}
ServiceToDict(accounts) ==
    [isdict |-> TRUE, acckind |-> "list",
     items |-> [k \in 1..Len(accounts) |-> AccountToDict(accounts[k])]]

\* the object save() serialises
Serialise(store) ==
    [kind |-> "object",
     body |-> [s \in DOMAIN store |-> ServiceToDict(store[s])]]

RECURSIVE AccountsFromItems(_, _)
AccountsFromItems(items, t) ==
    IF items = <<>> THEN <<>>
    ELSE IF Head(items).isdict
         THEN <<AccountFromDict(Head(items), t)>>
                  \o AccountsFromItems(Tail(items), t)
         ELSE AccountsFromItems(Tail(items), t)

\* ServiceData.from_dict: payload.get("accounts", []), the dict entries kept
ServiceFromDict(payload, t) ==
    IF payload.acckind = "list" THEN AccountsFromItems(payload.items, t)
    ELSE <<>>

\* DataStore.load at clock t, from in-memory store old: what is raised, and
\* _services after the call
LoadResult(f, old, t) ==
    IF f.kind \in {"missing", "corrupt"}
    THEN [err |-> "none", services |-> EmptyStore]
    ELSE IF f.kind # "object"
    THEN [err |-> "AttributeError", services |-> old]
    ELSE IF \E s \in DOMAIN f.body :
                f.body[s].isdict /\ f.body[s].acckind = "noniterable"
    THEN [err |-> "TypeError", services |-> old]
    ELSE [err |-> "none",
          services |-> [s \in {x \in DOMAIN f.body : f.body[x].isdict} |->
                            ServiceFromDict(f.body[s], t)]]

\* ---------------------------------------------------------- store helpers

\* DataStore.get_service: the entry is created on first reference
GetService(store, s) ==
    IF s \in DOMAIN store THEN store
    ELSE [x \in DOMAIN store \cup {s} |->
              IF x \in DOMAIN store THEN store[x] ELSE <<>>]

\* list(self.get_service(service_name).accounts)
Accounts(store, s) == IF s \in DOMAIN store THEN store[s] ELSE <<>>

\* 0 <= index < len(service.accounts)
InRange(store, s, k) == 0 <= k /\ k < Len(Accounts(store, s))

SetService(store, s, accounts) ==
    [x \in DOMAIN store \cup {s} |-> IF x = s THEN accounts ELSE store[x]]

\* list.pop() in the place of del list[index]
RemoveLast(seq, k) == SubSeq(seq, 1, Len(seq) - 1)

\* del service.accounts[index], k being index + 1
RemoveAt(seq, k) == SubSeq(seq, 1, k - 1) \o SubSeq(seq, k + 1, Len(seq))

RECURSIVE SumLens(_, _)
SumLens(store, names) ==
    IF names = {} THEN 0
    ELSE LET s == CHOOSE x \in names : TRUE
         IN Len(store[s]) + SumLens(store, names \ {s})

Held(store) == SumLens(store, DOMAIN store)

\* save() that keeps what the file holds and the store does not: the file's
\* other services, and the file's accounts the store's list lacks
SaveFileMerging(store, f, outcome) ==
    LET old == LoadResult(f, EmptyStore, 0).services
        extra(s) == IF s \in DOMAIN old
                    THEN SelectSeq(old[s], LAMBDA a : ~InSeq(a, Accounts(store, s)))
                    ELSE <<>>
        merged == [s \in DOMAIN store \cup DOMAIN old |->
                      Accounts(store, s) \o extra(s)]
    IN IF outcome = "ok" THEN Serialise(merged)
       ELSE IF outcome = "open_failed" THEN f
       ELSE CorruptFile

\* the file after save(): written whole, or left as it was when open()
\* fails, or left truncated when the write fails part-way
SaveFile(store, f, outcome) ==
    IF outcome = "ok" THEN Serialise(store)
    ELSE IF outcome = "open_failed" THEN f
    ELSE CorruptFile

SaveErr(outcome) == IF outcome = "ok" THEN "none" ELSE "OSError"

SaveOutcomes == {"ok", "open_failed", "write_failed"}

\* ------------------------------------------------------------- CSV file

\* a row whose tags are joined by a space alone
ExportRowSpaceJoined(a) ==
    [AccountToDict(a) EXCEPT !.tagskind = "str",
                             !.tags = <<JoinTagsBySpace(a.tags)>>]

\* one row of export_service_to_csv: to_dict with the tags joined
ExportRow(a) ==
    [AccountToDict(a) EXCEPT !.tagskind = "str", !.tags = <<JoinTags(a.tags)>>]

ExportRows(accounts) ==
    [k \in 1..Len(accounts) |-> ExportRow(accounts[k])]

\* a lookup that starts empty instead of from the accounts held
SeenOfNothing(accounts) == [u \in {} |-> 0]

\* a lookup that keeps the first index of a username, as setdefault would
SeenOfFirst(accounts) ==
    [u \in {accounts[k].username : k \in 1..Len(accounts)} |->
        CHOOSE k \in 1..Len(accounts) :
            /\ accounts[k].username = u
            /\ \A j \in 1..(k - 1) : accounts[j].username # u]

\* seen = {account.username: idx for idx, account in enumerate(...)}: of
\* several accounts with one username the last index stays
SeenOf(accounts) ==
    [u \in {accounts[k].username : k \in 1..Len(accounts)} |->
        CHOOSE k \in 1..Len(accounts) :
            /\ accounts[k].username = u
            /\ \A j \in (k + 1)..Len(accounts) : accounts[j].username # u]

\* the loop body that leaves the notes out of the update
ImportRowKeepingNotes(st, row, t) ==
    LET account == AccountFromDict(row, t)
    IN IF account.username \in DOMAIN st.seen
       THEN LET index == st.seen[account.username]
            IN [st EXCEPT
                  !.accounts[index] =
                      AccountUpdated(@, [password |-> account.password,
                                         tags |-> account.tags], t),
                  !.updated = @ + 1]
       ELSE [accounts |-> Append(st.accounts, account),
             seen |-> [u \in DOMAIN st.seen \cup {account.username} |->
                          IF u = account.username THEN Len(st.accounts) + 1
                          ELSE st.seen[u]],
             added |-> st.added + 1,
             updated |-> st.updated]

\* the loop body that does not enter an appended username into seen
ImportRowUnregistered(st, row, t) ==
    LET account == AccountFromDict(row, t)
    IN IF account.username \in DOMAIN st.seen
       THEN LET index == st.seen[account.username]
            IN [st EXCEPT
                  !.accounts[index] =
                      AccountUpdated(@, [password |-> account.password,
                                         notes |-> account.notes,
                                         tags |-> account.tags], t),
                  !.updated = @ + 1]
       ELSE [st EXCEPT !.accounts = Append(@, account), !.added = @ + 1]

\* the body of the import loop for one row, read at clock t
ImportRow(st, row, t) ==
    LET account == AccountFromDict(row, t)
    IN IF account.username \in DOMAIN st.seen
       THEN LET index == st.seen[account.username]
            IN [st EXCEPT
                  !.accounts[index] =
                      AccountUpdated(@, [password |-> account.password,
                                         notes |-> account.notes,
                                         tags |-> account.tags], t),
                  !.updated = @ + 1]
       ELSE [accounts |-> Append(st.accounts, account),
             seen |-> [u \in DOMAIN st.seen \cup {account.username} |->
                          IF u = account.username THEN Len(st.accounts) + 1
                          ELSE st.seen[u]],
             added |-> st.added + 1,
             updated |-> st.updated]

RECURSIVE ImportLoop(_, _, _)
ImportLoop(st, rows, t) ==
    IF rows = <<>> THEN st
    ELSE ImportLoop(ImportRow(st, Head(rows), t), Tail(rows), t)

\* import_service_from_csv up to the save, the whole file being read within
\* the clock second t
ImportRows(accounts, rows, t) ==
    ImportLoop([accounts |-> accounts, seen |-> SeenOf(accounts),
                added |-> 0, updated |-> 0], rows, t)

\* ------------------------------------------------------------- passwords
\* A password is a sequence of characters. Each class alphabet is cut down
\* to two of its characters, in the alphabet's order.

AsciiLowercase == <<"a", "b">>     \* string.ascii_lowercase
AsciiUppercase == <<"A", "B">>     \* string.ascii_uppercase
Digits == <<"0", "1">>             \* string.digits
Punctuation == <<"!", "?">>        \* string.punctuation

\* a pool that falls back to the lowercase letters when nothing is enabled
CharacterPoolWithDefault(policy) ==
    LET pool == (IF policy.use_lowercase THEN AsciiLowercase ELSE <<>>)
                \o (IF policy.use_uppercase THEN AsciiUppercase ELSE <<>>)
                \o (IF policy.use_digits THEN Digits ELSE <<>>)
                \o (IF policy.use_symbols THEN Punctuation ELSE <<>>)
    IN IF pool = <<>> THEN [err |-> "none", pool |-> AsciiLowercase]
       ELSE [err |-> "none", pool |-> pool]

\* PasswordPolicy.character_pool: the pool, or the ValueError raised
CharacterPool(policy) ==
    LET pool == (IF policy.use_lowercase THEN AsciiLowercase ELSE <<>>)
                \o (IF policy.use_uppercase THEN AsciiUppercase ELSE <<>>)
                \o (IF policy.use_digits THEN Digits ELSE <<>>)
                \o (IF policy.use_symbols THEN Punctuation ELSE <<>>)
    IN IF pool = <<>> THEN [err |-> "ValueError", pool |-> <<>>]
       ELSE [err |-> "none", pool |-> pool]

\* range(policy.length): empty when the length is not positive
DrawCount(policy) == IF policy.length > 0 THEN policy.length ELSE 0

\* the strings "".join(secrets.choice(pool) for _ in range(length)) can be
GeneratedPasswords(policy) ==
    LET pool == CharacterPool(policy).pool
    IN [1..DrawCount(policy) -> {pool[k] : k \in 1..Len(pool)}]

\* c.islower(), c.isupper(), c.isdigit(), c in string.punctuation
IsLower(c) == InSeq(c, AsciiLowercase)
IsUpper(c) == InSeq(c, AsciiUppercase)
IsDigit(c) == InSeq(c, Digits)
IsPunctuation(c) == InSeq(c, Punctuation)

\* sum(1 for flag in categories if flag)
Diversity(password) ==
    LET any(P(_)) == \E k \in 1..Len(password) : P(password[k])
        flag(b) == IF b THEN 1 ELSE 0
    IN flag(any(IsLower)) + flag(any(IsUpper)) + flag(any(IsDigit))
           + flag(any(IsPunctuation))

Min(a, b) == IF a < b THEN a ELSE b
Max(a, b) == IF a > b THEN a ELSE b

StrengthLabel(score) ==
    IF score <= 1 THEN [label |-> "Weak", color |-> "#d64541"]
    ELSE IF score = 2 THEN [label |-> "Fair", color |-> "#e67e22"]
    ELSE IF score = 3 THEN [label |-> "Strong", color |-> "#2980b9"]
    ELSE [label |-> "Very strong", color |-> "#27ae60"]

PasswordStrength(score, label, color, suggestions) ==
    [score |-> score, label |-> label, color |-> color,
     suggestions |-> suggestions]

\* a clamp that forgets the lower end
ClampUpperOnly(score) == Min(score, 4)

\* score = max(1, min(score, 4))
Clamp(score) == Max(1, Min(score, 4))

\* the estimator with a plain "else" in the place of "elif diversity < 4"
EstimatePasswordStrengthElse(password) ==
    IF password = <<>>
    THEN PasswordStrength(0, "Empty", "#808080", <<"Use at least 12 characters.">>)
    ELSE LET length == Len(password)
             diversity == Diversity(password)
             score1 == IF length >= 8 THEN 1 ELSE 0
             sugg1 == IF length >= 8 THEN <<>>
                      ELSE <<"Use at least 8 characters.">>
             score2 == IF length >= 12 THEN score1 + 1 ELSE score1
             sugg2 == IF length >= 12 THEN sugg1
                      ELSE Append(sugg1, "Aim for 12 or more characters.")
             score3 == IF diversity >= 3 THEN score2 + 1 ELSE score2
             sugg3 == IF diversity >= 3 THEN sugg2
                      ELSE Append(sugg2, "Mix upper, lower, digits and symbols.")
             score4 == IF diversity = 4 /\ length >= 14 THEN score3 + 1
                       ELSE score3
             sugg4 == IF diversity = 4 /\ length >= 14 THEN sugg3
                      ELSE Append(sugg3, "Add more character types for extra strength.")
             score == Clamp(score4)
         IN PasswordStrength(score, StrengthLabel(score).label,
                             StrengthLabel(score).color, sugg4)

\* estimate_password_strength
EstimatePasswordStrength(password) ==
    IF password = <<>>
    THEN PasswordStrength(0, "Empty", "#808080", <<"Use at least 12 characters.">>)
    ELSE LET length == Len(password)
             diversity == Diversity(password)
             score1 == IF length >= 8 THEN 1 ELSE 0
             sugg1 == IF length >= 8 THEN <<>>
                      ELSE <<"Use at least 8 characters.">>
             score2 == IF length >= 12 THEN score1 + 1 ELSE score1
             sugg2 == IF length >= 12 THEN sugg1
                      ELSE Append(sugg1, "Aim for 12 or more characters.")
             score3 == IF diversity >= 3 THEN score2 + 1 ELSE score2
             sugg3 == IF diversity >= 3 THEN sugg2
                      ELSE Append(sugg2, "Mix upper, lower, digits and symbols.")
             score4 == IF diversity = 4 /\ length >= 14 THEN score3 + 1
                       ELSE score3
             sugg4 == IF diversity = 4 /\ length >= 14 THEN sugg3
                      ELSE IF diversity < 4
                      THEN Append(sugg3, "Add more character types for extra strength.")
                      ELSE sugg3
             score == Clamp(score4)
         IN PasswordStrength(score, StrengthLabel(score).label,
                             StrengthLabel(score).color, sugg4)

\* ---------------------------------------------------------------- actions

Call(i, op, err, saved, added, updated) ==
    [inst |-> i, op |-> op, err |-> err, saved |-> saved,
     added |-> added, updated |-> updated]

\* DataStore.load() called on a constructed store
Load(i) ==
    /\ started[i]
    /\ LET r == LoadResult(file, mem[i], now)
       IN /\ mem' = [mem EXCEPT ![i] = r.services]
          /\ last' = Call(i, "load", r.err, FALSE, 0, 0)
    /\ UNCHANGED <<started, file, csv, now>>

\* DataStore(storage_path): _services = {} and then load()
Construct(i) ==
    /\ ~started[i]
    /\ LET r == LoadResult(file, EmptyStore, now)
       IN /\ mem' = [mem EXCEPT ![i] = r.services]
          /\ started' = [started EXCEPT ![i] = (r.err = "none")]
          /\ last' = Call(i, "construct", r.err, FALSE, 0, 0)
    /\ UNCHANGED <<file, csv, now>>

\* DataStore.save()
Save(i, outcome) ==
    /\ started[i]
    /\ file' = SaveFile(mem[i], file, outcome)
    /\ last' = Call(i, "save", SaveErr(outcome), TRUE, 0, 0)
    /\ UNCHANGED <<mem, started, csv, now>>

\* add_account that undoes the append when save() raises
AddAccountRollingBack(i, s, account, outcome) ==
    /\ started[i]
    /\ Held(mem[i]) < MaxAccounts
    /\ LET service == GetService(mem[i], s)
           store == SetService(service, s, Append(service[s], account))
       IN /\ mem' = [mem EXCEPT ![i] = IF outcome = "ok" THEN store ELSE service]
          /\ file' = SaveFile(store, file, outcome)
    /\ last' = Call(i, "add_account", SaveErr(outcome), TRUE, 0, 0)
    /\ UNCHANGED <<started, csv, now>>

\* add_account that keeps usernames unique: a second account of a username
\* held is not appended
AddAccountUnlessHeld(i, s, account, outcome) ==
    /\ started[i]
    /\ Held(mem[i]) < MaxAccounts
    /\ LET service == GetService(mem[i], s)
           held == \E k \in 1..Len(service[s]) :
                       service[s][k].username = account.username
           store == IF held THEN service
                    ELSE SetService(service, s, Append(service[s], account))
       IN /\ mem' = [mem EXCEPT ![i] = store]
          /\ file' = SaveFile(store, file, outcome)
    /\ last' = Call(i, "add_account", SaveErr(outcome), TRUE, 0, 0)
    /\ UNCHANGED <<started, csv, now>>

\* DataStore.add_account
AddAccount(i, s, account, outcome) ==
    /\ started[i]
    /\ Held(mem[i]) < MaxAccounts
    /\ LET service == GetService(mem[i], s)
           store == SetService(service, s, Append(service[s], account))
       IN /\ mem' = [mem EXCEPT ![i] = store]
          /\ file' = SaveFile(store, file, outcome)
    /\ last' = Call(i, "add_account", SaveErr(outcome), TRUE, 0, 0)
    /\ UNCHANGED <<started, csv, now>>

\* update_account guarded by "index < len(...)" alone: a negative index
\* then counts from the end, as list indexing does
UpdateAccountNegativeIndex(i, s, index, account, outcome) ==
    /\ started[i]
    /\ LET service == GetService(mem[i], s)
           n == Len(service[s])
       IN IF -n <= index /\ index < n
          THEN LET pos == IF index < 0 THEN n + index + 1 ELSE index + 1
                   store == [service EXCEPT ![s][pos] = account]
               IN /\ mem' = [mem EXCEPT ![i] = store]
                  /\ file' = SaveFile(store, file, outcome)
                  /\ last' = Call(i, "update_account", SaveErr(outcome), TRUE, 0, 0)
          ELSE /\ mem' = [mem EXCEPT ![i] = service]
               /\ file' = file
               /\ last' = Call(i, "update_account", "none", FALSE, 0, 0)
    /\ UNCHANGED <<started, csv, now>>

\* update_account that does list.insert(index, account)
UpdateAccountInserting(i, s, index, account, outcome) ==
    /\ started[i]
    /\ LET service == GetService(mem[i], s)
       IN IF 0 <= index /\ index < Len(service[s])
          THEN LET store == [service EXCEPT ![s] =
                                SubSeq(@, 1, index) \o <<account>>
                                    \o SubSeq(@, index + 1, Len(@))]
               IN /\ mem' = [mem EXCEPT ![i] = store]
                  /\ file' = SaveFile(store, file, outcome)
                  /\ last' = Call(i, "update_account", SaveErr(outcome), TRUE, 0, 0)
          ELSE /\ mem' = [mem EXCEPT ![i] = service]
               /\ file' = file
               /\ last' = Call(i, "update_account", "none", FALSE, 0, 0)
    /\ UNCHANGED <<started, csv, now>>

\* DataStore.update_account
UpdateAccount(i, s, index, account, outcome) ==
    /\ started[i]
    /\ LET service == GetService(mem[i], s)
       IN IF 0 <= index /\ index < Len(service[s])
          THEN LET store == [service EXCEPT ![s][index + 1] = account]
               IN /\ mem' = [mem EXCEPT ![i] = store]
                  /\ file' = SaveFile(store, file, outcome)
                  /\ last' = Call(i, "update_account", SaveErr(outcome), TRUE, 0, 0)
          ELSE /\ mem' = [mem EXCEPT ![i] = service]
               /\ file' = file
               /\ last' = Call(i, "update_account", "none", FALSE, 0, 0)
    /\ UNCHANGED <<started, csv, now>>

\* delete_account that forgets to persist
DeleteAccountUnsaved(i, s, index, outcome) ==
    /\ started[i]
    /\ LET service == GetService(mem[i], s)
       IN IF 0 <= index /\ index < Len(service[s])
          THEN /\ mem' = [mem EXCEPT ![i] =
                             [service EXCEPT ![s] = RemoveAt(@, index + 1)]]
               /\ file' = file
               /\ last' = Call(i, "delete_account", "none", FALSE, 0, 0)
          ELSE /\ mem' = [mem EXCEPT ![i] = service]
               /\ file' = file
               /\ last' = Call(i, "delete_account", "none", FALSE, 0, 0)
    /\ UNCHANGED <<started, csv, now>>

DeleteAccount(i, s, index, outcome) ==
    /\ started[i]
    /\ LET service == GetService(mem[i], s)
       IN IF 0 <= index /\ index < Len(service[s])
          THEN LET store == [service EXCEPT ![s] = RemoveAt(@, index + 1)]
               IN /\ mem' = [mem EXCEPT ![i] = store]
                  /\ file' = SaveFile(store, file, outcome)
                  /\ last' = Call(i, "delete_account", SaveErr(outcome), TRUE, 0, 0)
          ELSE /\ mem' = [mem EXCEPT ![i] = service]
               /\ file' = file
               /\ last' = Call(i, "delete_account", "none", FALSE, 0, 0)
    /\ UNCHANGED <<started, csv, now>>

\* list_accounts that persists the entry it creates
ListAccountsSaving(i, s) ==
    /\ started[i]
    /\ mem' = [mem EXCEPT ![i] = GetService(mem[i], s)]
    /\ file' = SaveFile(GetService(mem[i], s), file, "ok")
    /\ last' = Call(i, "list_accounts", "none", FALSE, 0, 0)
    /\ UNCHANGED <<started, csv, now>>

ListAccounts(i, s) ==
    /\ started[i]
    /\ mem' = [mem EXCEPT ![i] = GetService(mem[i], s)]
    /\ last' = Call(i, "list_accounts", "none", FALSE, 0, 0)
    /\ UNCHANGED <<started, file, csv, now>>

ExportServiceToCsv(i, s) ==
    /\ started[i]
    /\ LET service == GetService(mem[i], s)
       IN /\ mem' = [mem EXCEPT ![i] = service]
          /\ csv' = ExportRows(service[s])
    /\ last' = Call(i, "export", "none", FALSE, 0, 0)
    /\ UNCHANGED <<started, file, now>>

ImportServiceFromCsv(i, s, rows, outcome) ==
    /\ started[i]
    /\ LET service == GetService(mem[i], s)
           st == ImportRows(service[s], rows, now)
           store == [service EXCEPT ![s] = st.accounts]
       IN /\ Held(store) <= MaxAccounts
          /\ mem' = [mem EXCEPT ![i] = store]
          /\ file' = SaveFile(store, file, outcome)
          /\ last' = Call(i, "import", SaveErr(outcome), TRUE, st.added, st.updated)
    /\ UNCHANGED <<started, csv, now>>

\* import_service_from_csv, statement by statement. While the call runs,
\* last holds its frame: the rows the reader has not yielded yet, seen, and
\* the two counters. existing.accounts is the list the store holds, so each
\* row changes the store in place.

\* get_service, seen, added = updated = 0, and the file opened
ImportOpen(i, s, rows) ==
    /\ started[i]
    /\ last.op # "importing"
    /\ LET service == GetService(mem[i], s)
       IN /\ Held([service EXCEPT
                      ![s] = ImportRows(service[s], rows, now).accounts])
                 <= MaxAccounts
          /\ mem' = [mem EXCEPT ![i] = service]
          /\ last' = [inst |-> i, op |-> "importing", service |-> s,
                      pending |-> rows, seen |-> SeenOf(service[s]),
                      added |-> 0, updated |-> 0]
    /\ UNCHANGED <<started, file, csv, now>>

\* a loop body that saves after every row
ImportNextRowSaving(i) ==
    /\ last.op = "importing"
    /\ last.inst = i
    /\ last.pending # <<>>
    /\ LET s == last.service
           st == ImportRow([accounts |-> mem[i][s], seen |-> last.seen,
                            added |-> last.added, updated |-> last.updated],
                           Head(last.pending), now)
       IN /\ mem' = [mem EXCEPT ![i][s] = st.accounts]
          /\ file' = SaveFile(mem'[i], file, "ok")
          /\ last' = [last EXCEPT !.pending = Tail(@), !.seen = st.seen,
                                  !.added = st.added, !.updated = st.updated]
    /\ UNCHANGED <<started, csv, now>>

\* one turn of "for row in reader": the row is merged or appended
ImportNextRow(i) ==
    /\ last.op = "importing"
    /\ last.inst = i
    /\ last.pending # <<>>
    /\ LET s == last.service
           st == ImportRow([accounts |-> mem[i][s], seen |-> last.seen,
                            added |-> last.added, updated |-> last.updated],
                           Head(last.pending), now)
       IN /\ mem' = [mem EXCEPT ![i][s] = st.accounts]
          /\ last' = [last EXCEPT !.pending = Tail(@), !.seen = st.seen,
                                  !.added = st.added, !.updated = st.updated]
    /\ UNCHANGED <<started, file, csv, now>>

\* the reader raises on the row it is asked for (csv.Error,
\* UnicodeDecodeError, OSError): the exception leaves the call
ImportAbort(i) ==
    /\ last.op = "importing"
    /\ last.inst = i
    /\ last.pending # <<>>
    /\ last' = Call(i, "import", "csv.Error", FALSE, 0, 0)
    /\ UNCHANGED <<mem, started, file, csv, now>>

\* the reader is exhausted: self.save() and return added, updated
ImportClose(i, outcome) ==
    /\ last.op = "importing"
    /\ last.inst = i
    /\ last.pending = <<>>
    /\ file' = SaveFile(mem[i], file, outcome)
    /\ last' = Call(i, "import", SaveErr(outcome), TRUE, last.added, last.updated)
    /\ UNCHANGED <<mem, started, csv, now>>

\* a second passes
Tick ==
    /\ now < MaxClock
    /\ now' = now + 1
    /\ UNCHANGED <<mem, started, file, csv, last>>

\* the dialog's strength display: estimate_password_strength(password)
UpdateStrength(password) ==
    /\ last' = [op |-> "estimate", password |-> password,
                strength |-> EstimatePasswordStrength(password)]
    /\ UNCHANGED <<mem, started, file, csv, now>>

\* generate_password(policy): the error of character_pool(), or any of the
\* strings the random draws can give
GeneratePassword(policy) ==
    /\ LET r == CharacterPool(policy)
       IN IF r.err # "none"
          THEN last' = [op |-> "generate", policy |-> policy, err |-> r.err,
                        returned |-> FALSE, password |-> <<>>]
          ELSE \E password \in GeneratedPasswords(policy) :
                   last' = [op |-> "generate", policy |-> policy,
                            err |-> "none", returned |-> TRUE,
                            password |-> password]
    /\ UNCHANGED <<mem, started, file, csv, now>>

\* ---------------------------------------------------------------- inputs

Row(u, p, n, cell, lu) ==
    [isdict |-> TRUE, username |-> u, password |-> p, notes |-> n,
     tagskind |-> "str", tags |-> <<cell>>, last_updated |-> lu]

\* the Account objects a caller of the store can hold at clock t: built
\* through the constructor at some moment up to t
CallerAccounts(t) ==
    UNION {{Account("u1", "p1", "", <<>>, lu),
            Account("u2", "p2", "n", <<<<" ", "a">>, <<"a">>>>, lu)} :
           lu \in 0..t}

Indexes == -1..MaxAccounts

\* CSV files a user brings along
SampleFiles ==
    {<<Row("u1", "p1", "", <<>>, 0)>>,
     <<Row("u2", "p2", "n", <<"a">>, 0), Row("u2", "p2", "n", <<"a">>, 0)>>}

\* ------------------------------------------------------------------ Spec
\* One store instance on a healthy disk, constructed where no file exists.

Init ==
    /\ mem = [i \in Instances |-> EmptyStore]
    /\ started = [i \in Instances |-> i = 1]
    /\ file = MissingFile
    /\ csv = <<>>
    /\ now = 0
    /\ last = Call(1, "construct", "none", FALSE, 0, 0)

Next ==
    \/ Save(1, "ok")
    \/ Load(1)
    \/ \E s \in ServiceNames, a \in CallerAccounts(now) :
           AddAccount(1, s, a, "ok")
    \/ \E s \in ServiceNames, k \in Indexes, a \in CallerAccounts(now) :
           UpdateAccount(1, s, k, a, "ok")
    \/ \E s \in ServiceNames, k \in Indexes : DeleteAccount(1, s, k, "ok")
    \/ \E s \in ServiceNames : ListAccounts(1, s)
    \/ \E s \in ServiceNames, rows \in SampleFiles :
           ImportServiceFromCsv(1, s, rows, "ok")
    \/ Tick

Spec == Init /\ [][Next]_vars

\* -------------------------------------------------------------- SpecFail
\* One store instance on a disk whose writes may fail, within one second.

NextFail ==
    \/ \E o \in SaveOutcomes : Save(1, o)
    \/ Load(1)
    \/ \E a \in CallerAccounts(now), o \in SaveOutcomes :
           AddAccount(1, "mail", a, o)
    \/ \E k \in Indexes, a \in CallerAccounts(now), o \in SaveOutcomes :
           UpdateAccount(1, "mail", k, a, o)
    \/ \E k \in Indexes, o \in SaveOutcomes : DeleteAccount(1, "mail", k, o)
    \/ ListAccounts(1, "mail")
    \/ \E rows \in SampleFiles, o \in SaveOutcomes :
           ImportServiceFromCsv(1, "mail", rows, o)

SpecFail == Init /\ [][NextFail]_vars

\* --------------------------------------------------------------- SpecTwo
\* Two store instances on the same storage_path, on a healthy disk, within
\* one second. The second instance is constructed at any moment.

NextTwo ==
    \/ Construct(2)
    \/ \E i \in Instances, s \in ServiceNames, a \in CallerAccounts(now) :
           AddAccount(i, s, a, "ok")
    \/ \E i \in Instances, s \in ServiceNames, k \in Indexes,
          a \in CallerAccounts(now) : UpdateAccount(i, s, k, a, "ok")
    \/ \E i \in Instances, s \in ServiceNames, k \in Indexes :
           DeleteAccount(i, s, k, "ok")
    \/ \E i \in Instances, s \in ServiceNames : ListAccounts(i, s)

SpecTwo == Init /\ [][NextTwo]_vars

\* ------------------------------------------------------------ SpecImport
\* A store that holds some accounts of service "mail", and a CSV file that
\* is imported into that service, any number of times, at any second.

BoundedSeqs(S, n) == UNION {[1..k -> S] : k \in 0..n}

FieldSets ==
    {[password |-> "p1", notes |-> "", tags |-> <<>>,
      cell |-> <<>>],
     [password |-> "p2", notes |-> "n", tags |-> <<<<"a">>>>,
      cell |-> <<"a", ",", " ", "a", " ">>]}

\* accounts a store holds at clock 0
StoredAccounts ==
    {Account(u, v.password, v.notes, v.tags, 0) :
        u \in Usernames, v \in FieldSets}

\* rows of a CSV file written at clock 0
FileRows ==
    {Row(u, v.password, v.notes, v.cell, 0) : u \in Usernames, v \in FieldSets}

StoreOf(accounts) ==
    [i \in Instances |->
        IF i = 1 THEN [s \in {"mail"} |-> accounts] ELSE EmptyStore]

InitImport ==
    \E accounts \in BoundedSeqs(StoredAccounts, MaxAccounts),
       rows \in BoundedSeqs(FileRows, MaxRows) :
        /\ mem = StoreOf(accounts)
        /\ started = [i \in Instances |-> i = 1]
        /\ file = Serialise(mem[1])
        /\ csv = rows
        /\ now = 0
        /\ last = Call(1, "construct", "none", FALSE, 0, 0)

NextImport ==
    \/ ImportServiceFromCsv(1, "mail", csv, "ok")
    \/ Tick

SpecImport == InitImport /\ [][NextImport]_vars

\* ------------------------------------------------------------ SpecExport
\* A store that holds some accounts of service "mail" exports them; a second
\* store, empty, imports the CSV file into its own service "mail".

TagLists ==
    {<<>>,
     <<<<"a">>, <<"a", " ", "a">>>>,
     <<<<"a", ",", "a">>>>}

ExportedAccounts ==
    {Account(u, "p1", "n", tg, 0) : u \in Usernames, tg \in TagLists}

InitExport ==
    \E accounts \in BoundedSeqs(ExportedAccounts, MaxAccounts) :
        /\ mem = StoreOf(accounts)
        /\ started = [i \in Instances |-> TRUE]
        /\ file = Serialise(mem[1])
        /\ csv = <<>>
        /\ now = 0
        /\ last = Call(1, "construct", "none", FALSE, 0, 0)

NextExport ==
    \/ ExportServiceToCsv(1, "mail")
    \/ ImportServiceFromCsv(2, "mail", csv, "ok")
    \/ Tick

SpecExport == InitExport /\ [][NextExport]_vars

\* --------------------------------------------------------- SpecRoundTrip
\* A populated store whose file was left truncated by a failed write is
\* saved; a second store is constructed on the same file, at any second.

PopulatedStores ==
    UNION {{[s \in {"mail"} |-> accounts],
            [s \in ServiceNames |-> IF s = "mail" THEN accounts ELSE <<>>],
            [s \in ServiceNames |-> IF s = "bank" THEN accounts
                                    ELSE <<Account("u1", "p2", "", <<>>, 0)>>]} :
           accounts \in BoundedSeqs(ExportedAccounts, MaxAccounts)}

InitRoundTrip ==
    \E store \in PopulatedStores :
        /\ mem = [i \in Instances |-> IF i = 1 THEN store ELSE EmptyStore]
        /\ started = [i \in Instances |-> i = 1]
        /\ file = CorruptFile
        /\ csv = <<>>
        /\ now = 0
        /\ last = Call(1, "construct", "none", FALSE, 0, 0)

NextRoundTrip ==
    \/ Save(1, "ok")
    \/ Construct(2)
    \/ Tick

SpecRoundTrip == InitRoundTrip /\ [][NextRoundTrip]_vars

\* -------------------------------------------------------------- SpecLoad
\* A constructed store whose file has since been replaced by some other
\* content calls load(); a second store is constructed on that file.

\* entries of an "accounts" array: a non-object, and account objects whose
\* tags are a list, a string, or absent, with or without last_updated
JsonEntries ==
    {[isdict |-> FALSE, username |-> "", password |-> "", notes |-> "",
      tagskind |-> "other", tags |-> <<>>, last_updated |-> NoStamp],
     [isdict |-> TRUE, username |-> "u1", password |-> "p1", notes |-> "",
      tagskind |-> "list", tags |-> <<<<"a">>, <<" ", "a">>>>, last_updated |-> 0],
     [isdict |-> TRUE, username |-> "u2", password |-> "p2", notes |-> "n",
      tagskind |-> "str", tags |-> <<<<"a", ",", "a", " ">>>>, last_updated |-> NoStamp],
     [isdict |-> TRUE, username |-> "u1", password |-> "p2", notes |-> "n",
      tagskind |-> "other", tags |-> <<>>, last_updated |-> 0]}

\* values of a top-level key: a non-object, an object without "accounts",
\* an object whose "accounts" cannot be iterated (a number, null), and
\* objects whose "accounts" is an array
JsonServices ==
    {[isdict |-> FALSE, acckind |-> "absent", items |-> <<>>],
     [isdict |-> TRUE, acckind |-> "absent", items |-> <<>>],
     [isdict |-> TRUE, acckind |-> "noniterable", items |-> <<>>]}
    \cup {[isdict |-> TRUE, acckind |-> "list", items |-> items] :
             items \in BoundedSeqs(JsonEntries, 1)}

FileSamples ==
    {MissingFile, CorruptFile, NonObjectFile}
    \cup {[kind |-> "object", body |-> body] :
             body \in UNION {[S -> JsonServices] : S \in SUBSET ServiceNames}}

PriorStores ==
    {EmptyStore, [s \in {"mail"} |-> <<Account("u1", "p1", "", <<>>, 0)>>]}

InitLoad ==
    \E store \in PriorStores, f \in FileSamples :
        /\ mem = [i \in Instances |-> IF i = 1 THEN store ELSE EmptyStore]
        /\ started = [i \in Instances |-> i = 1]
        /\ file = f
        /\ csv = <<>>
        /\ now = 0
        /\ last = Call(1, "construct", "none", FALSE, 0, 0)

NextLoad ==
    \/ Load(1)
    \/ Construct(2)
    \/ Tick

SpecLoad == InitLoad /\ [][NextLoad]_vars

\* -------------------------------------------------------------- SpecLazy
\* One store instance on a healthy disk, within one second: reads (list,
\* export, out-of-range update and delete) and writes on either service.

NextLazy ==
    \/ Save(1, "ok")
    \/ \E s \in ServiceNames, a \in CallerAccounts(now) :
           AddAccount(1, s, a, "ok")
    \/ \E s \in ServiceNames, k \in Indexes, a \in CallerAccounts(now) :
           UpdateAccount(1, s, k, a, "ok")
    \/ \E s \in ServiceNames, k \in Indexes : DeleteAccount(1, s, k, "ok")
    \/ \E s \in ServiceNames : ListAccounts(1, s)
    \/ \E s \in ServiceNames : ExportServiceToCsv(1, s)
    \/ \E s \in ServiceNames, rows \in SampleFiles :
           ImportServiceFromCsv(1, s, rows, "ok")

SpecLazy == Init /\ [][NextLazy]_vars

\* -------------------------------------------------------------- SpecTags
\* A store is constructed on a file whose accounts carry tags that were
\* never normalised; accounts built from raw tags are added, the tags of
\* stored accounts are edited through Account.updated, and a CSV file with
\* raw tags cells is imported.

ExampleTags == <<<<"a">>, <<" ", "a", " ">>, <<>>, <<"b">>, <<"a">>>>

RawTagLists ==
    {<<>>, ExampleTags, <<<<" ">>, <<"b", " ">>>>, <<<<"a", " ", "b">>, <<"b">>, <<"b">>>>}

RawCells ==
    {<<>>, <<"a", ",", " ", "a", " ", ",", ",", "b", ",", "a">>, <<" ", ",">>}

TagEntries ==
    {[isdict |-> TRUE, username |-> "u1", password |-> "p1", notes |-> "",
      tagskind |-> "list", tags |-> raw, last_updated |-> 0] :
        raw \in RawTagLists}
    \cup {[isdict |-> TRUE, username |-> "u1", password |-> "p1", notes |-> "",
           tagskind |-> "str", tags |-> <<cell>>, last_updated |-> 0] :
             cell \in RawCells}

InitTags ==
    \E entry \in TagEntries, cell \in RawCells, u \in Usernames :
        /\ mem = [i \in Instances |-> EmptyStore]
        /\ started = [i \in Instances |-> FALSE]
        /\ file = [kind |-> "object",
                   body |-> [s \in {"mail"} |->
                               [isdict |-> TRUE, acckind |-> "list",
                                items |-> <<entry>>]]]
        /\ csv = <<Row(u, "p2", "n", cell, 0)>>
        /\ now = 0
        /\ last = Call(1, "none", "none", FALSE, 0, 0)

NextTags ==
    \/ Construct(1)
    \/ \E raw \in RawTagLists :
           AddAccount(1, "mail", Account("u2", "p1", "", raw, now), "ok")
    \/ \E k \in Indexes, raw \in RawTagLists :
           /\ InRange(mem[1], "mail", k)
           /\ UpdateAccount(1, "mail", k,
                            AccountUpdated(mem[1]["mail"][k + 1],
                                           [tags |-> raw], now), "ok")
    \/ ImportServiceFromCsv(1, "mail", csv, "ok")

SpecTags == InitTags /\ [][NextTags]_vars

\* ---------------------------------------------------------- SpecStrength
\* A password is typed into the password field of a dialog, one character
\* at a time, and the strength display follows every keystroke. The
\* characters are typed in the order of their classes: the estimator looks at
\* the length and at the classes that occur, not at positions.

\* a lowercase letter, an uppercase letter, a digit, a symbol, a blank
TypedChars == <<"a", "A", "0", "!", " ">>

RankOf(c) == CHOOSE k \in 1..Len(TypedChars) : TypedChars[k] = c

InitStrength ==
    /\ mem = [i \in Instances |-> EmptyStore]
    /\ started = [i \in Instances |-> i = 1]
    /\ file = MissingFile
    /\ csv = <<>>
    /\ now = 0
    /\ last = [op |-> "estimate", password |-> <<>>,
               strength |-> EstimatePasswordStrength(<<>>)]

NextStrength ==
    \E k \in 1..Len(TypedChars) :
        /\ Len(last.password) < MaxTyped
        /\ last.password # <<>> =>
               RankOf(last.password[Len(last.password)]) <= k
        /\ UpdateStrength(Append(last.password, TypedChars[k]))

SpecStrength == InitStrength /\ [][NextStrength]_vars

\* ---------------------------------------------------------- SpecGenerate
\* Passwords are generated under every policy of a small length.

Policies ==
    [length : 0..MaxDrawn, use_lowercase : BOOLEAN, use_uppercase : BOOLEAN,
     use_digits : BOOLEAN, use_symbols : BOOLEAN]

NextGenerate == \E policy \in Policies : GeneratePassword(policy)

SpecGenerate == Init /\ [][NextGenerate]_vars

\* ------------------------------------------------------------- SpecStamp
\* One store instance, one service, a clock that advances: accounts are
\* added and replaced as the caller hands them in, edited through
\* Account.updated as the window does, and imported.

\* keyword arguments of Account.updated: the password dialog's, and a call
\* that passes a last_updated of its own
Changes ==
    {[password |-> "p2"],
     [notes |-> "n", last_updated |-> 0]}

\* CSV files with and without a last_updated column
StampFiles ==
    {<<Row("u1", "p2", "", <<>>, 0)>>,
     <<Row("u2", "p2", "n", <<"a">>, NoStamp)>>}

\* accounts of one username that a caller holds
HeldByCaller(t) == {a \in CallerAccounts(t) : a.username = "u1"}

NextStamp ==
    \/ \E a \in HeldByCaller(now) : AddAccount(1, "mail", a, "ok")
    \/ \E k \in Indexes, a \in HeldByCaller(now) :
           UpdateAccount(1, "mail", k, a, "ok")
    \/ \E k \in Indexes, changes \in Changes :
           /\ InRange(mem[1], "mail", k)
           /\ UpdateAccount(1, "mail", k,
                            AccountUpdated(mem[1]["mail"][k + 1], changes, now),
                            "ok")
    \/ \E rows \in StampFiles : ImportServiceFromCsv(1, "mail", rows, "ok")
    \/ Tick

SpecStamp == Init /\ [][NextStamp]_vars

\* ------------------------------------------------------- SpecImportRows
\* The import of SpecImport, row by row, the reader failing at any row; the
\* clock advances at any moment, between two rows too.

NextImportRows ==
    \/ ImportOpen(1, "mail", csv)
    \/ ImportNextRow(1)
    \/ ImportAbort(1)
    \/ ImportClose(1, "ok")
    \/ Tick

SpecImportRows == InitImport /\ [][NextImportRows]_vars

\* ---------------------------------------------------------------- claims

MutatingOps == {"add_account", "update_account", "delete_account", "import"}

\* what list_accounts returns for every service
Listing(store) == [s \in ServiceNames |-> Accounts(store, s)]

\* C1 (Spec): write-through durability. When every save succeeds, at the
\* return of each add_account, update_account, delete_account and import a
\* fresh store constructed on the same file, now or later, lists for every
\* service exactly the accounts the in-memory store lists.
C1_WriteThrough ==
    last.op \in MutatingOps =>
        \A t \in now..MaxClock :
            LET fresh == LoadResult(file, EmptyStore, t)
            IN /\ fresh.err = "none"
               /\ Listing(fresh.services) = Listing(mem[1])

C1_Witness ==
    /\ last.op = "delete_account"
    /\ last.saved
    /\ "bank" \in DOMAIN mem[1]
    /\ Len(Accounts(mem[1], "mail")) = 1
    /\ mem[1]["mail"][1].tags # <<>>
    /\ file = Serialise(mem[1])

\* C3 (Spec): update_account and delete_account with an index outside
\* 0 <= index < length (negative, the length, beyond it) raise nothing, do
\* not call save, leave the file as it was and leave every service's
\* accounts as they were.
C3_OutOfRangeIgnored ==
    [][\A s \in ServiceNames, k \in Indexes :
          (/\ ~InRange(mem[1], s, k)
           /\ \/ \E a \in CallerAccounts(now) : UpdateAccount(1, s, k, a, "ok")
              \/ DeleteAccount(1, s, k, "ok"))
          => /\ last'.err = "none"
             /\ ~last'.saved
             /\ file' = file
             /\ Listing(mem'[1]) = Listing(mem[1])]_vars

C3_Witness ==
    /\ last.op \in {"update_account", "delete_account"}
    /\ ~last.saved
    /\ last.err = "none"
    /\ Len(Accounts(mem[1], "mail")) = 2
    /\ file = Serialise(mem[1])

\* C9 (SpecFail): a failed write in save() reaches the caller of save, of
\* add_account, of an in-range update_account or delete_account and of
\* import as OSError, and the store keeps the change the call had made.
C9_SaveFailureNotRecovered ==
    [][\A o \in SaveOutcomes \ {"ok"} :
          LET before == Accounts(mem[1], "mail")
              after == Accounts(mem'[1], "mail")
          IN /\ Save(1, o) => last'.err = "OSError"
             /\ \A a \in CallerAccounts(now) :
                    AddAccount(1, "mail", a, o) =>
                        last'.err = "OSError" /\ after = Append(before, a)
             /\ \A k \in Indexes, a \in CallerAccounts(now) :
                    (InRange(mem[1], "mail", k) /\ UpdateAccount(1, "mail", k, a, o)) =>
                        /\ last'.err = "OSError"
                        /\ after = [before EXCEPT ![k + 1] = a]
             /\ \A k \in Indexes :
                    (InRange(mem[1], "mail", k) /\ DeleteAccount(1, "mail", k, o)) =>
                        /\ last'.err = "OSError"
                        /\ after = RemoveAt(before, k + 1)
             /\ \A rows \in SampleFiles :
                    ImportServiceFromCsv(1, "mail", rows, o) =>
                        /\ last'.err = "OSError"
                        /\ after = ImportRows(before, rows, now).accounts]_vars

C9_Witness ==
    /\ last.op = "add_account"
    /\ last.err = "OSError"
    /\ Len(Accounts(mem[1], "mail")) = 2
    /\ file.kind = "object"
    /\ Len(file.body["mail"].items) = 1

\* C10 (SpecTwo): last writer wins. Whenever an instance has saved, the
\* file holds that instance's whole in-memory store and nothing else, and no
\* error was raised: what the other instance had written is in the file only
\* so far as the writer held it too.
C10_LastWriterWins ==
    last.saved =>
        /\ last.err = "none"
        /\ file = Serialise(mem[last.inst])
        /\ LoadResult(file, EmptyStore, now).services = mem[last.inst]

C10_Witness ==
    /\ started[1] /\ started[2]
    /\ last.inst = 2
    /\ last.op = "add_account"
    /\ Len(Accounts(mem[1], "mail")) = 1
    /\ Len(Accounts(mem[2], "mail")) = 1
    /\ mem[1]["mail"][1].username = "u1"
    /\ mem[2]["mail"][1].username = "u2"
    /\ file.body["mail"].items = <<AccountToDict(mem[2]["mail"][1])>>

Names(seq) == {seq[k].username : k \in 1..Len(seq)}

LastRowFor(rows, u) ==
    rows[CHOOSE k \in 1..Len(rows) :
            /\ rows[k].username = u
            /\ \A j \in (k + 1)..Len(rows) : rows[j].username # u]

RowsNaming(rows, names) == {k \in 1..Len(rows) : rows[k].username \in names}

ImportStep == ImportServiceFromCsv(1, "mail", csv, "ok")

\* C4 (SpecImport): the merge rule of import. No account is removed or
\* moved and every account keeps its username; an account whose username the
\* file does not name is left as it was; for every username of the file that
\* the service already held, an account of that username now carries the
\* password, the notes and the normalised tags of the file's (last) row for
\* it, stamped with the time of the import; the usernames the service did not
\* hold are appended after the old accounts; in a file that names no username
\* twice, the rows of held usernames are the updated count, the others the
\* added count.
C4_MergeRule ==
    [][ImportStep =>
        LET before == Accounts(mem[1], "mail")
            after == Accounts(mem'[1], "mail")
            old == Names(before)
            new == Names(csv) \ old
        IN /\ Len(after) >= Len(before)
           /\ \A k \in 1..Len(before) :
                  /\ after[k].username = before[k].username
                  /\ before[k].username \notin Names(csv) => after[k] = before[k]
           /\ \A u \in Names(csv) \cap old :
                  \E k \in 1..Len(before) :
                      LET r == LastRowFor(csv, u)
                      IN /\ before[k].username = u
                         /\ after[k].password = r.password
                         /\ after[k].notes = r.notes
                         /\ after[k].tags = NormaliseTags(SplitComma(r.tags[1]))
                         /\ after[k].last_updated = now
           /\ {after[j].username : j \in (Len(before) + 1)..Len(after)} = new
           /\ last'.updated >= Cardinality(RowsNaming(csv, old))
           /\ Cardinality(Names(csv)) = Len(csv) =>
                  /\ last'.updated = Cardinality(RowsNaming(csv, old))
                  /\ last'.added = Cardinality(RowsNaming(csv, new))]_vars

C4_Witness ==
    /\ last.op = "import"
    /\ last.added = 1
    /\ last.updated = 1
    /\ now = 1
    /\ Len(Accounts(mem[1], "mail")) = 2
    /\ mem[1]["mail"][1] = Account("u1", "p2", "n", <<<<"a">>>>, 1)
    /\ mem[1]["mail"][2].username = "u2"
    /\ mem[1]["mail"][2].last_updated = 0
    /\ file = Serialise(mem[1])

\* C5 (SpecImport): rows of one file that repeat a username. A username
\* the import appends is appended once, later rows with it update that
\* account: added is the number of distinct usernames of the file that the
\* service did not hold, added + updated is the number of rows, and the
\* service grows by exactly added accounts.
C5_DuplicateRows ==
    [][ImportStep =>
        LET before == Accounts(mem[1], "mail")
            after == Accounts(mem'[1], "mail")
            new == Names(csv) \ Names(before)
        IN /\ last'.added = Cardinality(new)
           /\ last'.added + last'.updated = Len(csv)
           /\ Len(after) = Len(before) + last'.added
           /\ \A u \in new :
                  /\ Cardinality({j \in 1..Len(after) : after[j].username = u}) = 1
                  /\ \E j \in (Len(before) + 1)..Len(after) :
                         LET r == LastRowFor(csv, u)
                         IN /\ after[j].username = u
                            /\ after[j].password = r.password
                            /\ after[j].notes = r.notes]_vars

C5_Witness ==
    /\ last.op = "import"
    /\ last.added = 1
    /\ last.updated = 1
    /\ Len(csv) = 2
    /\ csv[1].username = csv[2].username
    /\ csv[1].password # csv[2].password
    /\ Len(Accounts(mem[1], "mail")) = 1
    /\ mem[1]["mail"][1].password = csv[2].password
    /\ file = Serialise(mem[1])

SameButStamp(a, b) ==
    /\ a.username = b.username
    /\ a.password = b.password
    /\ a.notes = b.notes
    /\ a.tags = b.tags

\* C6 as claimed (SpecImport): a second import of the same file reports
\* added = 0 and updated = N and leaves the accounts exactly as the first
\* import left them.
C6_Original ==
    [][(last.op = "import" /\ ImportStep) =>
        /\ last'.added = 0
        /\ last'.updated = Len(csv)
        /\ Accounts(mem'[1], "mail") = Accounts(mem[1], "mail")]_vars

\* C6 as amended (SpecImport): a second import of the same file reports
\* added = 0 and updated = N and leaves as many accounts, each at its
\* position with its username, password, notes and tags; an account the file
\* does not name is left as it was, and the last_updated of any other is
\* kept or set to the time of the second import.
C6_Idempotent ==
    [][(last.op = "import" /\ ImportStep) =>
        LET before == Accounts(mem[1], "mail")
            after == Accounts(mem'[1], "mail")
        IN /\ last'.added = 0
           /\ last'.updated = Len(csv)
           /\ Len(after) = Len(before)
           /\ \A k \in 1..Len(before) :
                  /\ SameButStamp(after[k], before[k])
                  /\ after[k].last_updated \in {before[k].last_updated, now}
                  /\ before[k].username \notin Names(csv) => after[k] = before[k]
           /\ \A u \in Names(csv) :
                  \E k \in 1..Len(after) :
                      after[k].username = u /\ after[k].last_updated = now]_vars

C6_Witness ==
    /\ last.op = "import"
    /\ last.added = 0
    /\ last.updated = 2
    /\ Len(csv) = 2
    /\ csv[1].username # csv[2].username
    /\ now = 1
    /\ Len(Accounts(mem[1], "mail")) = 2
    /\ \A k \in 1..2 : mem[1]["mail"][k].last_updated = 1
    /\ file = Serialise(mem[1])

HasComma(tag) == InSeq(",", tag)

\* the accounts can be told apart by username and no tag holds a comma
Exportable(accounts) ==
    /\ Cardinality(Names(accounts)) = Len(accounts)
    /\ \A k \in 1..Len(accounts) :
           \A j \in 1..Len(accounts[k].tags) : ~HasComma(accounts[k].tags[j])

ExportedThenImported ==
    /\ last.op = "export"
    /\ Accounts(mem[2], "mail") = <<>>
    /\ ImportServiceFromCsv(2, "mail", csv, "ok")

\* C7 as claimed (SpecExport): importing the export of any service into an
\* empty service gives as many accounts, in the same order, with the same
\* username, password, notes and tags.
C7_Original ==
    [][ExportedThenImported =>
        LET source == Accounts(mem[1], "mail")
            copy == Accounts(mem'[2], "mail")
        IN /\ Len(copy) = Len(source)
           /\ \A k \in 1..Len(source) : SameButStamp(copy[k], source[k])]_vars

\* C7 as amended (SpecExport): importing the export of a service whose
\* usernames are pairwise different and whose tags hold no comma into an
\* empty service gives exactly the accounts of the source, last_updated
\* included; two accounts of one username come back as one account, and a
\* tag with a comma comes back split.
C7_RoundTrip ==
    [][ExportedThenImported =>
        LET source == Accounts(mem[1], "mail")
            copy == Accounts(mem'[2], "mail")
        IN /\ last'.added = Cardinality(Names(source))
           /\ Len(copy) = Cardinality(Names(source))
           /\ Exportable(source) => copy = source]_vars

C7_Witness ==
    /\ last.op = "import"
    /\ last.inst = 2
    /\ last.added = 2
    /\ now = 1
    /\ Len(Accounts(mem[1], "mail")) = 2
    /\ mem[1]["mail"][1].tags = <<<<"a">>, <<"a", " ", "a">>>>
    /\ mem[2] = mem[1]
    /\ csv = ExportRows(mem[1]["mail"])

\* C2 (SpecRoundTrip): save() followed, at once or later, by the
\* construction of a fresh store on the same file gives the fresh store the
\* services of the saved one, each with the same accounts in the same order,
\* username, password, notes, tags and last_updated alike.
C2_RoundTrip ==
    [][(last.op = "save" /\ last.inst = 1 /\ Construct(2)) =>
        /\ last'.err = "none"
        /\ mem'[2] = mem[1]]_vars

C2_Witness ==
    /\ last.op = "construct"
    /\ last.inst = 2
    /\ started[2]
    /\ now = 1
    /\ mem[2] = mem[1]
    /\ DOMAIN mem[1] = ServiceNames
    /\ Len(mem[1]["bank"]) = 2
    /\ mem[1]["bank"][1].tags = <<<<"a", ",", "a">>>>
    /\ mem[1]["bank"][2].tags = <<<<"a">>, <<"a", " ", "a">>>>

\* what load() can read as a store: an object whose object-valued keys
\* hold an "accounts" that can be iterated, or none
Parsable(f) ==
    /\ f.kind = "object"
    /\ \A s \in DOMAIN f.body :
           f.body[s].isdict => f.body[s].acckind # "noniterable"

\* C8 (SpecLoad): load() raises nothing, and when the file is missing,
\* is not JSON, or is JSON that is not a store, the in-memory store is empty
\* after it.
C8_LoadNeverRaises ==
    [][Load(1) =>
        /\ last'.err = "none"
        /\ ~Parsable(file) => mem'[1] = EmptyStore]_vars

\* the file names service s
InFile(f, s) == f.kind = "object" /\ s \in DOMAIN f.body

\* a call that only refers to service s: list, export, or an update or a
\* delete with an index out of range
ReadOf(s) ==
    \/ ListAccounts(1, s)
    \/ ExportServiceToCsv(1, s)
    \/ \E k \in Indexes :
           /\ ~InRange(mem[1], s, k)
           /\ \/ \E a \in CallerAccounts(now) : UpdateAccount(1, s, k, a, "ok")
              \/ DeleteAccount(1, s, k, "ok")

\* a call that triggers a save on behalf of service s
WriteOf(s) ==
    \/ \E a \in CallerAccounts(now) : AddAccount(1, s, a, "ok")
    \/ \E k \in Indexes :
           /\ InRange(mem[1], s, k)
           /\ \/ \E a \in CallerAccounts(now) : UpdateAccount(1, s, k, a, "ok")
              \/ DeleteAccount(1, s, k, "ok")
    \/ \E rows \in SampleFiles : ImportServiceFromCsv(1, s, rows, "ok")

\* C11 as claimed (SpecLazy): a service the file does not name stays out
\* of the file through every call made on another service.
C11_Original ==
    [][\A s \in ServiceNames :
          (/\ ~InFile(file, s)
           /\ \E x \in ServiceNames \ {s} : ReadOf(x) \/ WriteOf(x))
          => ~InFile(file', s)]_vars

\* C11 as amended (SpecLazy): a reference by list, export or an
\* out-of-range update or delete creates the service's entry in memory,
\* empty, and leaves the file as it was; the entry enters the file with the
\* next save of the store, whichever service the call that saves names: a
\* save writes every service the store holds in memory, and a service enters
\* the file by a save alone.
C11_LazyEntries ==
    [][\A s \in ServiceNames :
          /\ ReadOf(s) =>
                 /\ file' = file
                 /\ s \in DOMAIN mem'[1]
                 /\ s \notin DOMAIN mem[1] => mem'[1][s] = <<>>
          /\ (WriteOf(s) \/ Save(1, "ok")) =>
                 \A x \in DOMAIN mem[1] : InFile(file', x)
          /\ (~InFile(file, s) /\ InFile(file', s)) =>
                 /\ last'.saved
                 /\ file' = Serialise(mem'[1])]_vars

C11_Witness ==
    /\ last.op = "add_account"
    /\ Len(Accounts(mem[1], "mail")) = 1
    /\ DOMAIN mem[1] = ServiceNames
    /\ mem[1]["bank"] = <<>>
    /\ InFile(file, "bank")
    /\ file.body["bank"].items = <<>>
    /\ csv = <<>>

\* every tag trimmed and not empty, no tag twice
Normalised(tags) ==
    /\ \A k \in 1..Len(tags) :
           /\ tags[k] # <<>>
           /\ Head(tags[k]) # " "
           /\ tags[k][Len(tags[k])] # " "
    /\ \A j, k \in 1..Len(tags) : tags[j] = tags[k] => j = k

\* the tags that are left of raw: those of raw, trimmed, in their order
RECURSIVE KeepsFirstOccurrences(_, _)
KeepsFirstOccurrences(tags, raw) ==
    IF raw = <<>> THEN tags = <<>>
    ELSE LET n == Len(raw)
             t == Strip(raw[n])
             rest == SubSeq(raw, 1, n - 1)
         IN IF t = <<>> \/ \E k \in 1..(n - 1) : Strip(raw[k]) = t
            THEN KeepsFirstOccurrences(tags, rest)
            ELSE /\ tags # <<>>
                 /\ tags[Len(tags)] = t
                 /\ KeepsFirstOccurrences(SubSeq(tags, 1, Len(tags) - 1), rest)

\* the raw tags an entry of the file, or a row, hands to the constructor
RawTagsOf(payload) ==
    IF payload.tagskind = "str" THEN SplitComma(payload.tags[1])
    ELSE payload.tags

\* C12 (SpecTags): every account the store holds, whether it came from
\* the constructor, from from_dict, from updated(...) or from an import, has
\* tags that are trimmed, not empty and pairwise different and that
\* normalisation leaves as they are; an account read from the file, or added
\* from a row, has the trimmed tags of its source in first-occurrence order;
\* normalising twice gives what normalising once gives; and
\* ["a", " a ", "", "b", "a"] comes out as ["a", "b"].
C12_TagsNormalised ==
    /\ \A s \in DOMAIN mem[1] : \A k \in 1..Len(mem[1][s]) :
           /\ Normalised(mem[1][s][k].tags)
           /\ NormaliseTags(mem[1][s][k].tags) = mem[1][s][k].tags
    /\ \A payload \in {file.body["mail"].items[1], csv[1]} :
           LET raw == RawTagsOf(payload)
           IN /\ NormaliseTags(NormaliseTags(raw)) = NormaliseTags(raw)
              /\ KeepsFirstOccurrences(NormaliseTags(raw), raw)
    /\ last.op = "construct" =>
           /\ KeepsFirstOccurrences(mem[1]["mail"][1].tags,
                                    RawTagsOf(file.body["mail"].items[1]))
           /\ file.body["mail"].items[1].tags = ExampleTags =>
                  mem[1]["mail"][1].tags = <<<<"a">>, <<"b">>>>
    /\ (last.op = "import" /\ last.added = 1) =>
           KeepsFirstOccurrences(mem[1]["mail"][Len(mem[1]["mail"])].tags,
                                 RawTagsOf(csv[1]))

C12_Witness ==
    /\ last.op = "construct"
    /\ started[1]
    /\ file.body["mail"].items[1].tagskind = "list"
    /\ file.body["mail"].items[1].tags = ExampleTags
    /\ mem[1]["mail"][1].tags = <<<<"a">>, <<"b">>>>

\* the character classes that occur in a password
ClassesPresent(password) ==
    {cls \in {"lowercase", "uppercase", "digit", "symbol"} :
        \E k \in 1..Len(password) :
            \/ cls = "lowercase" /\ password[k] \in {"a", "b"}
            \/ cls = "uppercase" /\ password[k] \in {"A", "B"}
            \/ cls = "digit" /\ password[k] \in {"0", "1"}
            \/ cls = "symbol" /\ password[k] \in {"!", "?"}}

Indicator(b) == IF b THEN 1 ELSE 0

\* C13 (SpecStrength): the score is 0 and the label "Empty" exactly for
\* the empty password; for any other password the score is
\* max(1, [length >= 8] + [length >= 12] + [diversity >= 3]
\*        + [diversity = 4 and length >= 14]),
\* diversity being the number of classes among lowercase, uppercase, digit
\* and symbol that occur, and the label is Weak, Fair, Strong, Very strong
\* for the scores 1, 2, 3, 4.
C13_Score ==
    LET password == last.password
        strength == last.strength
        length == Len(password)
        diversity == Cardinality(ClassesPresent(password))
        sum == Indicator(length >= 8) + Indicator(length >= 12)
               + Indicator(diversity >= 3)
               + Indicator(diversity = 4 /\ length >= 14)
    IN /\ (strength.score = 0) <=> (password = <<>>)
       /\ (strength.label = "Empty") <=> (password = <<>>)
       /\ password # <<>> =>
              /\ strength.score = (IF sum > 1 THEN sum ELSE 1)
              /\ strength.score \in 1..4
              /\ strength.label =
                     <<"Weak", "Fair", "Strong", "Very strong">>[strength.score]

C13_Witness ==
    /\ last.op = "estimate"
    /\ Len(last.password) = 14
    /\ Cardinality(ClassesPresent(last.password)) = 4
    /\ last.strength.score = 4
    /\ last.strength.label = "Very strong"

NoClassEnabled(policy) ==
    ~(policy.use_lowercase \/ policy.use_uppercase \/ policy.use_digits
          \/ policy.use_symbols)

\* the alphabets of the enabled classes, lowercase first, symbols last
EnabledAlphabets(policy) ==
    SelectSeq(<<"a", "b", "A", "B", "0", "1", "!", "?">>,
              LAMBDA c : \/ policy.use_lowercase /\ c \in {"a", "b"}
                         \/ policy.use_uppercase /\ c \in {"A", "B"}
                         \/ policy.use_digits /\ c \in {"0", "1"}
                         \/ policy.use_symbols /\ c \in {"!", "?"})

\* C14 (SpecGenerate): generate_password fails with ValueError and
\* returns nothing exactly when no class is enabled, and then uses no pool in
\* its place; otherwise it returns policy.length characters, each of them a
\* member of character_pool(), which is the alphabets of the enabled classes
\* in the order lowercase, uppercase, digits, symbols.
C14_Generate ==
    last.op = "generate" =>
        LET policy == last.policy
        IN /\ (last.err # "none") <=> NoClassEnabled(policy)
           /\ NoClassEnabled(policy) =>
                  /\ last.err = "ValueError"
                  /\ ~last.returned
                  /\ last.password = <<>>
           /\ ~NoClassEnabled(policy) =>
                  /\ last.returned
                  /\ Len(last.password) = policy.length
                  /\ CharacterPool(policy).pool = EnabledAlphabets(policy)
                  /\ \A k \in 1..Len(last.password) :
                         InSeq(last.password[k], EnabledAlphabets(policy))

\* all four classes enabled, and the password drawn has lowercase letters only
C14_Witness ==
    /\ last.op = "generate"
    /\ last.returned
    /\ last.policy.length = 2
    /\ last.policy.use_lowercase /\ last.policy.use_uppercase
    /\ last.policy.use_digits /\ last.policy.use_symbols
    /\ last.password = <<"b", "a">>

\* every service but s lists what it listed
OthersUnchanged(s) ==
    \A x \in ServiceNames \ {s} : Accounts(mem'[1], x) = Accounts(mem[1], x)

\* the call has saved, and a fresh store reads back what the store holds
Persisted ==
    /\ last'.saved
    /\ last'.err = "none"
    /\ file' = Serialise(mem'[1])
    /\ Listing(LoadResult(file', EmptyStore, now).services) = Listing(mem'[1])

\* C15 (Spec): delete_account(service, i) with 0 <= i < length removes
\* the account at position i and no other: the service has one account less,
\* the accounts before i stay where they were, each account after i is one
\* position lower, the other services list what they listed, and the result
\* is in the file.
C15_DeleteInRange ==
    [][\A s \in ServiceNames, i \in Indexes :
          (InRange(mem[1], s, i) /\ DeleteAccount(1, s, i, "ok")) =>
              LET before == Accounts(mem[1], s)
                  after == Accounts(mem'[1], s)
              IN /\ Len(after) = Len(before) - 1
                 /\ \A j \in 0..(i - 1) : after[j + 1] = before[j + 1]
                 /\ \A j \in (i + 1)..(Len(before) - 1) :
                        after[j] = before[j + 1]
                 /\ OthersUnchanged(s)
                 /\ Persisted]_vars

C15_Witness ==
    /\ last.op = "delete_account"
    /\ last.saved
    /\ Len(Accounts(mem[1], "bank")) = 1
    /\ mem[1]["bank"][1].username = "u1"
    /\ mem[1]["bank"][1].last_updated = 1
    /\ "mail" \notin DOMAIN mem[1]
    /\ file = Serialise(mem[1])

\* C16 (Spec): update_account(service, i, account) with 0 <= i < length
\* puts the given account at position i and saves: the service has as many
\* accounts as before, every other position holds what it held, and the other
\* services list what they listed.
C16_UpdateInRange ==
    [][\A s \in ServiceNames, i \in Indexes, a \in CallerAccounts(now) :
          (InRange(mem[1], s, i) /\ UpdateAccount(1, s, i, a, "ok")) =>
              LET before == Accounts(mem[1], s)
                  after == Accounts(mem'[1], s)
              IN /\ Len(after) = Len(before)
                 /\ after[i + 1] = a
                 /\ \A j \in 1..Len(before) : j # i + 1 => after[j] = before[j]
                 /\ OthersUnchanged(s)
                 /\ Persisted]_vars

C16_Witness ==
    /\ last.op = "update_account"
    /\ last.saved
    /\ Len(Accounts(mem[1], "mail")) = 2
    /\ mem[1]["mail"][1].username = "u1"
    /\ mem[1]["mail"][2].username = "u1"
    /\ mem[1]["mail"][1].last_updated = 0
    /\ mem[1]["mail"][2].last_updated = 1
    /\ file = Serialise(mem[1])

\* C17 (Spec): add_account(service, account) puts the account after the
\* accounts the service holds and saves: the service has one account more,
\* the accounts it held stay where they were, the other services list what
\* they listed; an account whose username the service already holds is
\* appended like any other.
C17_AddAppends ==
    [][\A s \in ServiceNames, a \in CallerAccounts(now) :
          AddAccount(1, s, a, "ok") =>
              LET before == Accounts(mem[1], s)
                  after == Accounts(mem'[1], s)
              IN /\ Len(after) = Len(before) + 1
                 /\ after[Len(after)] = a
                 /\ \A j \in 1..Len(before) : after[j] = before[j]
                 /\ OthersUnchanged(s)
                 /\ Persisted]_vars

C17_Witness ==
    /\ last.op = "add_account"
    /\ last.saved
    /\ Len(Accounts(mem[1], "bank")) = 2
    /\ mem[1]["bank"][1] = mem[1]["bank"][2]
    /\ "mail" \notin DOMAIN mem[1]
    /\ file = Serialise(mem[1])

\* C18 as claimed (SpecStamp): after an in-range update_account the
\* stored account's last_updated is the time of the call, after an import
\* every account a row was merged into has the time of the import, and every
\* account the import created has it too.
C18_Original ==
    [][LET before == Accounts(mem[1], "mail")
           after == Accounts(mem'[1], "mail")
       IN /\ \A k \in Indexes, a \in HeldByCaller(now) :
                 (InRange(mem[1], "mail", k) /\ UpdateAccount(1, "mail", k, a, "ok"))
                     => after[k + 1].last_updated = now
          /\ \A rows \in StampFiles :
                 ImportServiceFromCsv(1, "mail", rows, "ok") =>
                     /\ \A u \in Names(rows) \cap Names(before) :
                            \E k \in 1..Len(before) :
                                /\ before[k].username = u
                                /\ after[k].last_updated = now
                     /\ \A j \in (Len(before) + 1)..Len(after) :
                            after[j].last_updated = now]_vars

\* C18 as amended (SpecStamp): update_account stores the account it is
\* given with the last_updated that account carries, which is the time of the
\* call when the account was made by Account.updated(...) for the call, as
\* the window makes it; Account.updated(...) stamps the current time whatever
\* it is passed, a last_updated included; an import row that is merged into
\* an account held stamps it with the time of the import; an account the
\* import creates carries the last_updated of its row, and the time of the
\* import when the row has none or when a later row was merged into it.
C18_Stamps ==
    [][LET before == Accounts(mem[1], "mail")
           after == Accounts(mem'[1], "mail")
       IN /\ \A k \in Indexes, a \in HeldByCaller(now) :
                 (InRange(mem[1], "mail", k) /\ UpdateAccount(1, "mail", k, a, "ok"))
                     => after[k + 1].last_updated = a.last_updated
          /\ \A k \in Indexes, changes \in Changes :
                 (/\ InRange(mem[1], "mail", k)
                  /\ UpdateAccount(1, "mail", k,
                                   AccountUpdated(before[k + 1], changes, now), "ok"))
                     => after[k + 1].last_updated = now
          /\ \A rows \in StampFiles :
                 ImportServiceFromCsv(1, "mail", rows, "ok") =>
                     /\ \A u \in Names(rows) \cap Names(before) :
                            \E k \in 1..Len(before) :
                                /\ before[k].username = u
                                /\ after[k].last_updated = now
                     /\ \A j \in (Len(before) + 1)..Len(after) :
                            LET named == RowsNaming(rows, {after[j].username})
                                row == rows[CHOOSE r \in named : TRUE]
                            IN after[j].last_updated =
                                   IF Cardinality(named) > 1 THEN now
                                   ELSE IF row.last_updated = NoStamp THEN now
                                   ELSE row.last_updated]_vars

\* after an update_account, at second 1: an account stamped 0 and an
\* account stamped 1
C18_Witness ==
    /\ now = 1
    /\ Len(Accounts(mem[1], "mail")) = 2
    /\ last.op = "update_account"
    /\ last.saved
    /\ mem[1]["mail"][1] = Account("u1", "p1", "", <<>>, 0)
    /\ mem[1]["mail"][2] = Account("u2", "p2", "n", <<<<"a">>>>, 1)
    /\ file = Serialise(mem[1])

\* C19 (SpecImportRows): import saves once, after the last row. While
\* the rows are merged the file keeps the content it had before the import;
\* the file is written by the step that follows the last row and by no
\* other, with all the rows merged; when the import aborts at a row nothing
\* is saved, and the rows merged before it stay in memory.
C19_SavesOnceAtEnd ==
    [][/\ (ImportOpen(1, "mail", csv) \/ ImportNextRow(1)) => file' = file
       /\ ImportAbort(1) =>
              /\ file' = file
              /\ ~last'.saved
              /\ last'.err # "none"
              /\ mem' = mem
       /\ ImportClose(1, "ok") =>
              /\ last.pending = <<>>
              /\ last'.saved
              /\ last'.added + last'.updated = Len(csv)
              /\ file' = Serialise(mem[1])
              /\ mem' = mem
       /\ file' # file => ImportClose(1, "ok")]_vars

\* an import that aborted at its second row: the first row's account is in
\* memory and not in the file
C19_Witness ==
    /\ last.op = "import"
    /\ last.err = "csv.Error"
    /\ ~last.saved
    /\ Len(csv) = 2
    /\ Len(Accounts(mem[1], "mail")) = 1
    /\ mem[1]["mail"][1].username = csv[1].username
    /\ file = Serialise([s \in {"mail"} |-> <<>>])

\* the positions of the accounts of username u
PositionsOf(accounts, u) == {k \in 1..Len(accounts) : accounts[k].username = u}

Highest(S) == CHOOSE k \in S : \A j \in S : j <= k

\* C20 (SpecImport): when the service holds several accounts of one
\* username, the rows of that username update the account at the highest
\* position among them and leave the others as they were; each such row
\* counts once as updated and none as added.
C20_HighestPosition ==
    [][ImportStep =>
        LET before == Accounts(mem[1], "mail")
            after == Accounts(mem'[1], "mail")
        IN /\ \A u \in Names(csv) \cap Names(before) :
                  LET held == PositionsOf(before, u)
                      top == Highest(held)
                      row == LastRowFor(csv, u)
                  IN /\ \A k \in held \ {top} : after[k] = before[k]
                     /\ after[top] =
                            [username |-> u, password |-> row.password,
                             notes |-> row.notes,
                             tags |-> NormaliseTags(SplitComma(row.tags[1])),
                             last_updated |-> now]
           /\ last'.updated >= Cardinality(RowsNaming(csv, Names(before)))
           /\ Names(csv) \subseteq Names(before) =>
                  /\ last'.updated = Len(csv)
                  /\ last'.added = 0
                  /\ Len(after) = Len(before)]_vars

C20_Witness ==
    /\ last.op = "import"
    /\ last.added = 0
    /\ last.updated = 1
    /\ now = 1
    /\ Len(Accounts(mem[1], "mail")) = 2
    /\ mem[1]["mail"][1].username = mem[1]["mail"][2].username
    /\ mem[1]["mail"][1].password # csv[1].password
    /\ mem[1]["mail"][1].last_updated = 0
    /\ mem[1]["mail"][2].password = csv[1].password
    /\ mem[1]["mail"][2].last_updated = 1
    /\ file = Serialise(mem[1])

\* C21 (SpecStrength): for a password that is not empty the list of
\* suggestions is empty exactly when the length is at least 12 and all four
\* classes occur; a score of 4 never comes with a suggestion; the empty
\* password has its one suggestion. (A score of 3 without suggestions, four
\* classes in 12 or 13 characters, is the witness.)
C21_Suggestions ==
    LET password == last.password
        strength == last.strength
        diversity == Cardinality(ClassesPresent(password))
    IN /\ password # <<>> =>
              ((strength.suggestions = <<>>)
                   <=> (Len(password) >= 12 /\ diversity = 4))
       /\ strength.score = 4 => strength.suggestions = <<>>
       /\ password = <<>> => Len(strength.suggestions) = 1

C21_Witness ==
    /\ last.op = "estimate"
    /\ Len(last.password) \in {12, 13}
    /\ Cardinality(ClassesPresent(last.password)) = 4
    /\ last.strength.score = 3
    /\ last.strength.label = "Strong"
    /\ last.strength.suggestions = <<>>

=============================================================================
